---- MODULE Spec2Model ----
(***************************************************************************)
(* Offline queue synchronisation of the task manager: the Local Cache      *)
(* (LocalStorageService), the Task Gateway (TaskService, the offline-aware *)
(* version), the Sync Orchestrator and Connectivity Monitor                *)
(* (OfflineService), and the remote REST API they talk to.                 *)
(*                                                                         *)
(* One browser tab, one event loop: every action below is one handler run  *)
(* to completion (a macrotask with the microtasks it schedules).  An HTTP  *)
(* call is the only suspension point: it is issued in one action and its   *)
(* response is handled in a later one.  The remote API applies a request   *)
(* at the moment its response is delivered.                                *)
(***************************************************************************)
EXTENDS Integers, Sequences, FiniteSets, TLC

\* ------------------------------------------------------------------ bounds
\* Each specification fixes its bounds in its initial state (variable bound):
\*   tasks    gateway creates stop when the cache holds this many tasks
\*   queue    gateway enqueues stop when the queue holds this many actions
\*   ticks    clock readings Epoch .. Epoch + ticks
\*   drains   concurrent runs of syncPendingActions
\*   inflight concurrent online calls made by the UI
\* Spec: the Sync Orchestrator with every offline gateway call
MaxTasks == 1
MaxQueue == 1
MaxTicks == 1
MaxDrains == 1
\* GatewaySpec: the offline branches of the Task Gateway
GatewayTasks == 2
GatewayQueue == 3
GatewayTicks == 1
\* OnlineSpec: the online branches of the Task Gateway
OnlineTasks == 1
OnlineQueue == 1
OnlineTicks == 1
OnlineInflight == 1
\* QueueSpec: one drain over a longer queue
QueueTasks == 1
QueueLen == 2
QueueTicks == 1
QueueDrains == 1
\* RaceSpec: drains started while a drain is in progress
RaceTasks == 1
RaceQueue == 1
RaceTicks == 1
RaceDrains == 2
\* FailSpec: online calls that fail
FailTasks == 1
FailInflight == 1
\* QuerySpec: the longest cache the queries are served from
QueryLen == 2
\* CacheSpec: the longest task list the Local Cache methods are called on
CacheLen == 2
\* ListSpec: status changes of the task list, some of them overlapping
ListTasks == 1
ListQueue == 1
ListInflight == 2
\* ReplaySpec: offline operations, then one drain that the network never fails
ReplayTasks == 2
ReplayQueue == 2
ReplayTicks == 1
ReplayDrains == 1

\* Date.now() of the first step; far above every id the remote API assigns.
Epoch == 10

TaskStatus == {"todo", "in-progress", "done"}

\* The statuses the callers of the model pass
CallerStatus == {"todo", "done"}

VARIABLES
  online,      \* navigator.onLine
  now,         \* the clock read by Date.now() / new Date()
  tasks,       \* localStorage 'tasks'
  pending,     \* localStorage 'pending_actions'
  lastSync,    \* localStorage 'last_sync': <<>> (null) or <<time>>
  syncStatus,  \* OfflineService.syncStatusSubject.value
  remote,      \* the remote API's tasks resource
  drains,      \* runs of syncPendingActions suspended at an await
  inflight,    \* online calls of the UI whose response is outstanding
  last,        \* observation of the step just taken (op, result, calls issued ...)
  bound,       \* the bounds of the specification being checked
  ref,         \* reference run: the same operations performed online (ReplaySpec)
  view         \* TaskListComponent: the tasks displayed and their status changes

vars == <<online, now, tasks, pending, lastSync, syncStatus, remote, drains,
          inflight, last, bound, ref, view>>

\* ------------------------------------------------------------ JS objects
Has(r, f) == f \in DOMAIN r

\* { ...a, ...b }
Merge(a, b) ==
  [x \in DOMAIN a \cup DOMAIN b |-> IF x \in DOMAIN b THEN b[x] ELSE a[x]]

\* const { f, ...rest } = r
Without(r, f) == [x \in DOMAIN r \ {f} |-> r[x]]

\* JS truthiness of an optional number field: absent and 0 are falsy
Truthy(r, f) == Has(r, f) /\ r[f] # 0

Null == <<>>

\* Array.prototype.findIndex(t => t.id === id), 1-based; 0 when no element matches
findIndexById(s, id) ==
  LET hits == {i \in 1..Len(s) : Has(s[i], "id") /\ s[i].id = id}
  IN  IF hits = {} THEN 0 ELSE CHOOSE i \in hits : \A j \in hits : i <= j

\* Array.prototype.filter(t => t.id !== id)
filterOutId(s, id) ==
  LET Keep(t) == ~(Has(t, "id") /\ t.id = id) IN SelectSeq(s, Keep)

\* ------------------------------------------------- LocalStorageService
saveTasks(ts, newTasks) == newTasks

addTask(ts, task) ==
  LET p == IF Truthy(task, "priority") THEN task.priority ELSE Len(ts)
  IN  saveTasks(ts, Append(ts, Merge(task, [priority |-> p])))

\* An update that adds the task when the cache has none with its id
updateTaskOrAdd(ts, updatedTask) ==
  LET index == findIndexById(ts, updatedTask.id)
  IN  IF index # 0 THEN saveTasks(ts, [ts EXCEPT ![index] = updatedTask])
      ELSE saveTasks(ts, Append(ts, updatedTask))

updateTask(ts, updatedTask) ==
  LET index == findIndexById(ts, updatedTask.id)
  IN  IF index # 0 THEN saveTasks(ts, [ts EXCEPT ![index] = updatedTask]) ELSE ts

deleteTask(ts, taskId) == saveTasks(ts, filterOutId(ts, taskId))

reorderTasks(ts, reorderedTasks) ==
  saveTasks(ts, [i \in 1..Len(reorderedTasks) |->
                   Merge(reorderedTasks[i], [priority |-> i - 1])])

\* A queue that puts the newest action first
addPendingActionFirst(actions, action, t) ==
  <<Merge(action, [id |-> ToString(t), timestamp |-> t])>> \o actions

\* Date.now().toString()
ActionId(t) == ToString(t)

addPendingAction(actions, action, t) ==
  Append(actions, Merge(action, [id |-> ActionId(t), timestamp |-> t]))

removePendingAction(actions, actionId) ==
  LET Keep(a) == a.id # actionId IN SelectSeq(actions, Keep)

setLastSyncTime(time) == <<time>>

\* ----------------------------------------------------------- remote API
\* json-server: ids are max + 1; PUT/PATCH/DELETE of an unknown id answer 404.
RECURSIVE MaxId(_)
MaxId(s) ==
  IF s = <<>> THEN 0
  ELSE LET m == MaxId(Tail(s)) IN IF Head(s).id > m THEN Head(s).id ELSE m

remoteHas(rm, id) == findIndexById(rm, id) # 0

remotePost(rm, body) == Append(rm, Merge(body, [id |-> MaxId(rm) + 1]))

remotePut(rm, id, body) ==
  [rm EXCEPT ![findIndexById(rm, id)] = Merge(body, [id |-> id])]

remotePatch(rm, id, partial) ==
  [rm EXCEPT ![findIndexById(rm, id)] = Merge(Merge(@, partial), [id |-> id])]

remoteDelete(rm, id) == filterOutId(rm, id)

\* A filter that lets every task through
filterByStatusAll(s, status) == s

\* Array.filter(task => task.status === status); <<>> stands for "no filter"
filterByStatus(s, status) ==
  LET Keep(t) == t.status = status[1]
  IN  IF status = <<>> THEN s ELSE SelectSeq(s, Keep)

\* _sort=createdAt&_order=desc (a stable sort)
RECURSIVE insertDesc(_, _)
insertDesc(s, t) ==
  IF s = <<>> THEN <<t>>
  ELSE IF Head(s).createdAt >= t.createdAt THEN <<Head(s)>> \o insertDesc(Tail(s), t)
       ELSE <<t>> \o s

RECURSIVE sortByCreatedAtDesc(_)
sortByCreatedAtDesc(s) ==
  IF s = <<>> THEN <<>>
  ELSE insertDesc(sortByCreatedAtDesc(SubSeq(s, 1, Len(s) - 1)), s[Len(s)])

remoteGet(rm, status, desc) ==
  LET f == filterByStatus(rm, status) IN IF desc THEN sortByCreatedAtDesc(f) ELSE f

\* Whether the remote API answers the request with a success status
httpAccepts(rm, req) == req.m \in {"POST", "GET"} \/ remoteHas(rm, req.id)

\* The resource after an accepted request
httpRemote(rm, req) ==
  CASE req.m = "POST"   -> remotePost(rm, req.body)
    [] req.m = "PUT"    -> remotePut(rm, req.id, req.body)
    [] req.m = "PATCH"  -> remotePatch(rm, req.id, req.body)
    [] req.m = "DELETE" -> remoteDelete(rm, req.id)
    [] OTHER            -> rm

\* The body of the success response, as a sequence (<<>> for an empty body)
httpResponse(rm, req) ==
  CASE req.m = "POST"   -> <<httpRemote(rm, req)[Len(rm) + 1]>>
    [] req.m \in {"PUT", "PATCH"} ->
         <<httpRemote(rm, req)[findIndexById(rm, req.id)]>>
    [] req.m = "DELETE" -> <<>>
    [] OTHER            -> remoteGet(rm, req.status, req.desc)

\* ------------------------------------------------------------ TaskService
\* createTask: body = { ...payload, createdAt, id: Date.now() }
createBody(payload, t) == Merge(payload, [createdAt |-> t, id |-> t])

\* Offline branches: the Local Cache and the queue after the call, whether the
\* returned observable succeeds, and what it delivers.
createTaskOffline(ts, q, payload, t) ==
  LET cached == addTask(ts, createBody(payload, t))
      body   == cached[Len(cached)]     \* addTask sets priority on the object itself
  IN  [tasks |-> cached,
       pending |-> addPendingAction(q, [type |-> "create", task |-> body], t),
       ok |-> TRUE, ret |-> <<body>>]

updateTaskOffline(ts, q, task, t) ==
  [tasks |-> updateTask(ts, task),
   pending |-> addPendingAction(q, [type |-> "update", task |-> task], t),
   ok |-> TRUE, ret |-> <<task>>]

\* A patch that creates the task it does not find
patchTaskUpsert(ts, q, id, partial, t) ==
  LET index == findIndexById(ts, id)
      updatedTask == IF index # 0 THEN Merge(ts[index], partial)
                     ELSE Merge([id |-> id], partial)
  IN  [tasks |-> IF index # 0 THEN updateTask(ts, updatedTask)
                 ELSE Append(ts, updatedTask),
       pending |-> addPendingAction(q, [type |-> "update", task |-> updatedTask], t),
       ok |-> TRUE, ret |-> <<updatedTask>>]

patchTaskOffline(ts, q, id, partial, t) ==
  LET index == findIndexById(ts, id)
      updatedTask == Merge(ts[index], partial)
  IN  IF index # 0
      THEN [tasks |-> updateTask(ts, updatedTask),
            pending |-> addPendingAction(q, [type |-> "update", task |-> updatedTask], t),
            ok |-> TRUE, ret |-> <<updatedTask>>]
      ELSE [tasks |-> ts, pending |-> q, ok |-> FALSE, ret |-> <<"Task not found">>]

deleteTaskOffline(ts, q, id, t) ==
  [tasks |-> deleteTask(ts, id),
   pending |-> addPendingAction(q, [type |-> "delete", taskId |-> id], t),
   ok |-> TRUE, ret |-> <<>>]

reorderTasksOffline(ts, q, list, t) ==
  [tasks |-> reorderTasks(ts, list),
   pending |-> addPendingAction(q, [type |-> "reorder", data |-> [tasks |-> list]], t),
   ok |-> TRUE, ret |-> list]

\* Online branches: the request sent
createTaskRequest(payload, t) ==
  [m |-> "POST", body |-> Without(createBody(payload, t), "id")]

updateTaskRequest(id, task) == [m |-> "PUT", id |-> id, body |-> task]

patchTaskRequest(id, partial) == [m |-> "PATCH", id |-> id, body |-> partial]

deleteTaskRequest(id) == [m |-> "DELETE", id |-> id]

getTasksRequest(status, desc) == [m |-> "GET", status |-> status, desc |-> desc]

\* Online branches: the map() callback run on a success response
onSuccess(ts, req, resp) ==
  CASE req.m = "POST"   -> addTask(ts, resp[1])
    [] req.m \in {"PUT", "PATCH"} -> updateTask(ts, resp[1])
    [] req.m = "DELETE" -> deleteTask(ts, req.id)
    [] OTHER            -> saveTasks(ts, resp)

\* What the subscriber of an online call receives on success
onSuccessValue(ts, req, resp) ==
  IF req.m = "POST" THEN <<onSuccess(ts, req, resp)[Len(ts) + 1]>> ELSE resp

\* An HttpErrorResponse: whether error.error is an ErrorEvent (with its
\* message), the HTTP status (0 when no response arrived) and error.message
HttpError(isErrorEvent, status) ==
  [isErrorEvent |-> isErrorEvent, eventMessage |-> "Failed to fetch",
   status |-> status, message |-> "Http failure response"]

\* The error of a call the remote API answered with "not found", and of one
\* it could not serve
NotFoundStatus == 404

ServerFaultStatus == 500

\* A classification that looks at the status first
handleErrorStatusFirst(error) ==
  IF error.status = 0
  THEN "Cannot connect to server. Is the Mock API running on http://localhost:3001?"
  ELSE IF error.isErrorEvent THEN "Network error: " \o error.eventMessage
  ELSE "Server error " \o ToString(error.status) \o ": " \o error.message

\* TaskService.handleError: the message thrown to the caller
handleError(error) ==
  IF error.isErrorEvent THEN "Network error: " \o error.eventMessage
  ELSE IF error.status = 0
  THEN "Cannot connect to server. Is the Mock API running on http://localhost:3001?"
  ELSE "Server error " \o ToString(error.status) \o ": " \o error.message

\* An optimistic gateway, which caches what it sent although the call failed
onErrorOptimistic(ts, req) ==
  IF req.m = "POST" THEN addTask(ts, req.body) ELSE ts

\* catchError(handleError): the cache as the failed call leaves it
onError(ts, req) == ts

\* --------------------------------------------------------- OfflineService
\* A status update that republishes the time but not the count
updateSyncStatusTimeOnly(currentStatus, pendingActions, lastSyncTime) ==
  [currentStatus EXCEPT !.lastSyncTime = lastSyncTime]

updateSyncStatus(currentStatus, pendingActions, lastSyncTime) ==
  [currentStatus EXCEPT !.pendingSyncCount = Len(pendingActions),
                        !.lastSyncTime = lastSyncTime]

NoRequest == [m |-> "NONE"]

\* { priority: task.priority }: an absent priority is dropped by JSON.stringify
priorityOf(task) ==
  IF Has(task, "priority") THEN [priority |-> task.priority] ELSE <<>>

\* processPendingAction on st.snap[st.i] (for a reorder: on its st.j-th task):
\* "sent" with the request when the Task Gateway goes to the remote API,
\* else the outcome of the gateway's offline branch, or "skip" when the
\* action's guard is false and nothing is called.
processPendingAction(st, on, t) ==
  LET action == st.snap[st.i]
      sent(req) == [kind |-> "sent", req |-> req, tasks |-> st.tasks,
                    pending |-> st.pending]
      local(r)  == [kind |-> IF r.ok THEN "done" ELSE "failed", req |-> NoRequest,
                    tasks |-> r.tasks, pending |-> r.pending]
      skip      == [kind |-> "skip", req |-> NoRequest, tasks |-> st.tasks,
                    pending |-> st.pending]
  IN  CASE action.type = "create" ->
             IF ~Has(action, "task") THEN skip
             ELSE IF on
                  THEN sent(createTaskRequest([status |-> action.task.status], t))
                  ELSE local(createTaskOffline(st.tasks, st.pending,
                                               [status |-> action.task.status], t))
        [] action.type = "update" ->
             IF ~(Has(action, "task") /\ Truthy(action.task, "id")) THEN skip
             ELSE IF on THEN sent(updateTaskRequest(action.task.id, action.task))
                  ELSE local(updateTaskOffline(st.tasks, st.pending, action.task, t))
        [] action.type = "delete" ->
             IF ~Truthy(action, "taskId") THEN skip
             ELSE IF on THEN sent(deleteTaskRequest(action.taskId))
                  ELSE local(deleteTaskOffline(st.tasks, st.pending, action.taskId, t))
        [] OTHER ->
             LET task == action.data.tasks[st.j]
             IN  IF ~Truthy(task, "id") THEN skip
                 ELSE IF on THEN sent(patchTaskRequest(task.id, priorityOf(task)))
                      ELSE local(patchTaskOffline(st.tasks, st.pending, task.id,
                                                  priorityOf(task), t))

\* Whether the replay of st.snap[st.i] is complete once its current call is
IsLastCall(st) ==
  LET action == st.snap[st.i]
  IN  action.type # "reorder" \/ st.j >= Len(action.data.tasks)

\* The loop position after the current call has succeeded; the action is
\* removed from the queue when its replay is complete
afterSuccess(st, ts, q) ==
  IF IsLastCall(st)
  THEN [st EXCEPT !.tasks = ts,
                  !.pending = removePendingAction(q, st.snap[st.i].id),
                  !.i = @ + 1, !.j = 1]
  ELSE [st EXCEPT !.tasks = ts, !.pending = q, !.j = @ + 1]

\* The for loop of syncPendingActions from position (st.i, st.j) up to its
\* next await of an HTTP response ("await") or to its end ("end", with k the
\* position of the action whose replay failed, 0 when none did).
RECURSIVE drainLoop(_, _, _)
drainLoop(st, on, t) ==
  IF st.i > Len(st.snap) THEN Merge(st, [out |-> "end", k |-> 0, req |-> NoRequest])
  ELSE IF st.snap[st.i].type = "reorder" /\ Len(st.snap[st.i].data.tasks) = 0
  THEN drainLoop([st EXCEPT !.pending = removePendingAction(@, st.snap[st.i].id),
                            !.i = @ + 1, !.j = 1], on, t)
  ELSE LET r == processPendingAction(st, on, t)
       IN  CASE r.kind = "sent"   -> Merge(st, [out |-> "await", k |-> 0, req |-> r.req])
             [] r.kind = "failed" -> Merge(st, [out |-> "end", k |-> st.i,
                                                req |-> NoRequest])
             [] r.kind = "skip"   -> drainLoop(afterSuccess(st, r.tasks, r.pending), on, t)
             [] OTHER             ->
                  drainLoop([afterSuccess(st, r.tasks, r.pending) EXCEPT !.enq = TRUE],
                            on, t)

\* syncPendingActions up to its first await: the snapshot and the loop
syncPendingActions(ts, q, on, t) ==
  drainLoop([tasks |-> ts, pending |-> q, snap |-> q, i |-> 1, j |-> 1,
             enq |-> FALSE], on, t)

\* A syncPendingActions without the empty-queue return
NeverNothingToSync(q) == FALSE

\* The empty-queue return of syncPendingActions
NothingToSync(q) == Len(q) = 0

\* A subscriber that syncs on every true it is delivered
autoSyncWhenOnline(currentStatus, isOnline) == isOnline

\* The isOnline$ subscriber's test "isOnline && currentStatus.pendingSyncCount > 0"
autoSyncWanted(currentStatus, isOnline) ==
  isOnline /\ currentStatus.pendingSyncCount > 0

\* A forcSync without the connectivity test
forcSyncNeverRefused(on) == FALSE

\* forcSync's test "if (!navigator.onLine) throw"
forcSyncRefused(on) == ~on

\* The constructor: the initial subject value, the two initial emissions of
\* isOnline$ (of(navigator.onLine) and startWith(navigator.onLine)), each
\* handled by the subscriber, then updateSyncStatus()
initialStatus(on) ==
  [isOnline |-> on, pendingSyncCount |-> 0, lastSyncTime |-> Null]

\* getOnlineStatus(): what isOnline$ delivers on subscription, startWith's
\* value and then the value of of(navigator.onLine) merged in
getOnlineStatus(on) == <<on>> \o <<on>>

\* The isOnline$ subscriber's syncStatusSubject.next({ ...currentStatus, isOnline })
isOnlineNext(currentStatus, isOnline) == [currentStatus EXCEPT !.isOnline = isOnline]

RECURSIVE subscribe(_, _)
subscribe(currentStatus, values) ==
  IF values = <<>> THEN currentStatus
  ELSE subscribe(isOnlineNext(currentStatus, Head(values)), Tail(values))

initializeOfflineSupport(on, q, lastSyncTime) ==
  updateSyncStatus(subscribe(initialStatus(on), getOnlineStatus(on)), q, lastSyncTime)

\* ------------------------------------------------------------ observation
Obs(op, res, calls) ==
  [op |-> op, res |-> res, calls |-> calls, arg |-> 0, filter |-> <<>>,
   desc |-> FALSE, http |-> "none", error |-> <<>>, emit |-> <<>>,
   sync |-> FALSE, ended |-> FALSE, k |-> 0, snap |-> <<>>, clean |-> FALSE,
   ret |-> <<>>]

\* A drain is "clean" while no enqueue and no other drain has interleaved with it
Unclean(ds) == [n \in 1..Len(ds) |-> [ds[n] EXCEPT !.clean = FALSE]]

RemoveAt(s, n) == SubSeq(s, 1, n - 1) \o SubSeq(s, n + 1, Len(s))

\* The state after a run r of the drain loop that stopped at an await or ended:
\* rest are the other suspended drains, status the subject's value before the
\* run, clean whether nothing interleaved with this drain so far.
ApplyDrain(r, rest, status, clean, op, http) ==
  LET others == Unclean(rest)
      isClean == clean /\ ~r.enq /\ rest = <<>>
      \* a drain started by the isOnline$ subscriber: the step delivered true
      obs(res, calls) ==
        [Obs(op, res, calls) EXCEPT !.emit = IF op = "online" THEN <<TRUE>> ELSE <<>>]
  IN  /\ tasks' = r.tasks
      /\ pending' = r.pending
      /\ IF r.out = "end"
         THEN /\ lastSync' = setLastSyncTime(now)
              /\ syncStatus' = updateSyncStatus(status, r.pending, setLastSyncTime(now))
              /\ drains' = others
              /\ last' = [obs("ok", 0) EXCEPT !.sync = TRUE, !.ended = TRUE,
                            !.k = r.k, !.snap = r.snap, !.clean = isClean,
                            !.http = http]
         ELSE /\ lastSync' = lastSync
              /\ syncStatus' = status
              /\ drains' = Append(others, [snap |-> r.snap, i |-> r.i, j |-> r.j,
                                           req |-> r.req, clean |-> isClean])
              /\ last' = [obs("sent", 1) EXCEPT !.sync = TRUE, !.snap = r.snap,
                            !.clean = isClean, !.http = http]

\* ------------------------------------------------------ TaskListComponent
\* The component before any task is loaded: tasks are the displayed task
\* objects, updatingStatusIds the ids whose status change is outstanding.
\* History: first[id] is the status task id displayed before its first
\* changeStatus, succeeded the ids of which a changeStatus succeeded.
NoView == [tasks |-> <<>>, updatingStatusIds |-> {}, first |-> <<>>, succeeded |-> {}]

\* ------------------------------------------------------------------ actions
Bounds(t, q, c, d, f) ==
  [tasks |-> t, queue |-> q, ticks |-> c, drains |-> d, inflight |-> f,
   track |-> FALSE]

Start(b) ==
  /\ bound = b
  /\ online \in BOOLEAN
  /\ now = Epoch
  /\ tasks = <<>>
  /\ pending = <<>>
  /\ lastSync = Null
  /\ syncStatus = initializeOfflineSupport(online, <<>>, Null)
  /\ remote = <<>>
  /\ drains = <<>>
  /\ inflight = <<>>
  /\ last = [Obs("construct", "ok", 0) EXCEPT !.emit = getOnlineStatus(online)]
  /\ ref = [tasks |-> <<>>, remote |-> <<>>]
  /\ view = NoView

Init == Start(Bounds(MaxTasks, MaxQueue, MaxTicks, MaxDrains, 0))

\* The clock advances
Tick ==
  /\ now < Epoch + bound.ticks
  /\ now' = now + 1
  /\ last' = Obs("tick", "ok", 0)
  /\ UNCHANGED <<online, tasks, pending, lastSync, syncStatus, remote, drains,
                 inflight, ref, bound, view>>

\* window 'offline' event: isOnline$ emits false
GoOffline ==
  /\ online
  /\ online' = FALSE
  /\ syncStatus' = [syncStatus EXCEPT !.isOnline = FALSE]
  /\ last' = [Obs("offline", "ok", 0) EXCEPT !.emit = <<FALSE>>]
  /\ UNCHANGED <<now, tasks, pending, lastSync, remote, drains, inflight, ref, bound, view>>

\* window 'online' event: isOnline$ emits true; auto-sync when the subject's
\* pendingSyncCount is positive
GoOnline ==
  /\ ~online
  /\ online' = TRUE
  /\ IF autoSyncWanted(syncStatus, TRUE) /\ ~NothingToSync(pending)
     THEN /\ Len(drains) < bound.drains
          /\ ApplyDrain(syncPendingActions(tasks, pending, TRUE, now), drains,
                        [syncStatus EXCEPT !.isOnline = TRUE], TRUE, "online", "none")
     ELSE /\ syncStatus' = [syncStatus EXCEPT !.isOnline = TRUE]
          /\ last' = [Obs("online", "ok", 0) EXCEPT !.emit = <<TRUE>>]
          /\ UNCHANGED <<tasks, pending, lastSync, drains>>
  /\ UNCHANGED <<now, remote, inflight, ref, bound, view>>

\* OfflineService.forcSync()
ForcSync ==
  /\ IF forcSyncRefused(online)
     THEN /\ last' = Obs("forcSync", "error", 0)
          /\ UNCHANGED <<tasks, pending, lastSync, syncStatus, drains>>
     ELSE IF NothingToSync(pending)
     THEN /\ last' = Obs("forcSync", "ok", 0)
          /\ UNCHANGED <<tasks, pending, lastSync, syncStatus, drains>>
     ELSE /\ Len(drains) < bound.drains
          /\ ApplyDrain(syncPendingActions(tasks, pending, online, now), drains,
                        syncStatus, TRUE, "forcSync", "none")
  /\ UNCHANGED <<online, now, remote, inflight, ref, bound, view>>

\* The response to the call drain d awaits: netOk is whether the network
\* delivers the request and its response
DrainRespond(d, netOk) ==
  LET dr == drains[d]
      rest == RemoveAt(drains, d)
      ok == netOk /\ httpAccepts(remote, dr.req)
      st == [tasks |-> tasks, pending |-> pending, snap |-> dr.snap, i |-> dr.i,
             j |-> dr.j, enq |-> FALSE]
      resp == httpResponse(remote, dr.req)
      r == IF ok
           THEN drainLoop(afterSuccess(st, onSuccess(tasks, dr.req, resp), pending),
                          online, now)
           ELSE Merge([st EXCEPT !.tasks = onError(tasks, dr.req)],
                      [out |-> "end", k |-> dr.i, req |-> NoRequest])
  IN  /\ remote' = IF ok THEN httpRemote(remote, dr.req) ELSE remote
      /\ ApplyDrain(r, rest, syncStatus, dr.clean, "replay",
                    IF ok THEN "ok" ELSE "fail")
      /\ UNCHANGED <<online, now, inflight, ref, bound, view>>

\* Page reload: pending responses are dropped and OfflineService is constructed
\* again over the persisted Local Cache
Construct ==
  /\ syncStatus' = initializeOfflineSupport(online, pending, lastSync)
  /\ drains' = <<>>
  /\ inflight' = <<>>
  /\ last' = [Obs("construct", "ok", 0) EXCEPT
                !.emit = getOnlineStatus(online),
                !.sync = autoSyncWanted(initialStatus(online), online)]
  /\ view' = NoView
  /\ UNCHANGED <<online, now, tasks, pending, lastSync, remote, ref, bound>>

\* ----------------------------------------------------- Task Gateway calls
\* A task deleted in an earlier session, which a stale view may still show
StaleId == Epoch - 1

StaleTask == [id |-> StaleId, status |-> "todo", createdAt |-> StaleId]

IdsOf(s) == {s[i].id : i \in 1..Len(s)}

\* The ids a caller may pass: of the cached tasks, and a stale one
CallerIds == IdsOf(tasks) \cup {StaleId}

\* The task object the caller holds for an id
CallerTask(id) ==
  IF findIndexById(tasks, id) # 0 THEN tasks[findIndexById(tasks, id)]
  ELSE StaleTask

\* The reference run (tracked when bound.track): the same call made online
\* and answered at once.  A call on the task at some position of the cache
\* is, in the reference run, the call on the task at that position there.
RefId(id) ==
  LET p == findIndexById(tasks, id)
  IN  IF p \in 1..Len(ref.tasks) THEN ref.tasks[p].id ELSE id

RefAfter(req) ==
  IF bound.track /\ req # NoRequest /\ httpAccepts(ref.remote, req)
  THEN [tasks  |-> onSuccess(ref.tasks, req, httpResponse(ref.remote, req)),
        remote |-> httpRemote(ref.remote, req)]
  ELSE ref

\* The offline branch of a gateway call with outcome r; refReq is the request
\* the online branch would have sent
GatewayOffline(op, arg, r, refReq) ==
  /\ ~online
  /\ Len(r.pending) <= bound.queue
  /\ tasks' = r.tasks
  /\ pending' = r.pending
  /\ drains' = IF r.pending # pending THEN Unclean(drains) ELSE drains
  /\ last' = [Obs(op, IF r.ok THEN "ok" ELSE "error", 0) EXCEPT
                !.ret = r.ret, !.arg = arg]
  /\ ref' = RefAfter(refReq)
  /\ UNCHANGED <<online, now, lastSync, syncStatus, remote, inflight, bound, view>>

\* The online branch of a gateway call: the request is sent
GatewayOnline(op, arg, req) ==
  /\ online
  /\ Len(inflight) < bound.inflight
  /\ inflight' = Append(inflight, [op |-> op, arg |-> arg, req |-> req])
  /\ last' = [Obs(op, "sent", 1) EXCEPT !.arg = arg]
  /\ UNCHANGED <<online, now, tasks, pending, lastSync, syncStatus, remote, drains,
                 ref, bound, view>>

\* createTask(payload)
CanCreate == Len(tasks) < bound.tasks /\ MaxId(remote) < bound.tasks

CreateTaskOffline(status) ==
  /\ CanCreate
  /\ GatewayOffline("createTask", 0,
                    createTaskOffline(tasks, pending, [status |-> status], now),
                    createTaskRequest([status |-> status], now))

CreateTaskOnline(status) ==
  /\ CanCreate
  /\ GatewayOnline("createTask", 0, createTaskRequest([status |-> status], now))

\* updateTask(task.id, task) with the caller's task set to status
UpdateTaskOffline(id, status) ==
  GatewayOffline("updateTask", id,
                 updateTaskOffline(tasks, pending,
                                   Merge(CallerTask(id), [status |-> status]), now),
                 updateTaskRequest(RefId(id),
                                   Merge(CallerTask(id), [status |-> status,
                                                          id |-> RefId(id)])))

UpdateTaskOnline(id, status) ==
  GatewayOnline("updateTask", id,
                updateTaskRequest(id, Merge(CallerTask(id), [status |-> status])))

\* patchTask(id, { status })
PatchTaskOffline(id, status) ==
  GatewayOffline("patchTask", id,
                 patchTaskOffline(tasks, pending, id, [status |-> status], now),
                 patchTaskRequest(RefId(id), [status |-> status]))

PatchTaskOnline(id, status) ==
  GatewayOnline("patchTask", id, patchTaskRequest(id, [status |-> status]))

\* deleteTask(id)
DeleteTaskOffline(id) ==
  GatewayOffline("deleteTask", id, deleteTaskOffline(tasks, pending, id, now),
                 deleteTaskRequest(RefId(id)))

DeleteTaskOnline(id) == GatewayOnline("deleteTask", id, deleteTaskRequest(id))

\* The orders a drag-and-drop may produce: the cached tasks of a view (all of
\* them or some), each once, in any order
Reorderings ==
  LET n == Len(tasks)
      picks == UNION {[1..m -> 1..n] : m \in 1..n}
      distinct(f) == \A a, b \in DOMAIN f : a # b => f[a] # f[b]
  IN  {[x \in DOMAIN f |-> tasks[f[x]]] : f \in {g \in picks : distinct(g)}}

\* reorderTasks(list)
ReorderTasksOffline(list) ==
  GatewayOffline("reorderTasks", 0, reorderTasksOffline(tasks, pending, list, now),
                 NoRequest)

ReorderTasksOnline(list) ==
  /\ online
  /\ tasks' = reorderTasks(tasks, list)
  /\ last' = Obs("reorderTasks", "ok", 0)
  /\ UNCHANGED <<online, now, pending, lastSync, syncStatus, remote, drains,
                 inflight, ref, bound, view>>

\* A comparator that forgets the drag-and-drop order
compareByCreatedAt(a, b, desc) ==
  IF desc THEN b.createdAt - a.createdAt ELSE a.createdAt - b.createdAt

\* getTasks served from the Local Cache.  Array.sort with the comparator of
\* the offline branch: by priority when both tasks carry one, else by createdAt.
compare(a, b, desc) ==
  IF Has(a, "priority") /\ Has(b, "priority") THEN a.priority - b.priority
  ELSE IF desc THEN b.createdAt - a.createdAt
  ELSE a.createdAt - b.createdAt

\* Array.sort is stable; where the comparator is no consistent order (some
\* tasks with a priority and some without) the outcome is left to the engine:
\* any arrangement in which no neighbours are out of order, and equal
\* neighbours keep their original order.
sortOutcomes(s, desc) ==
  LET n == Len(s)
      perms == {f \in [1..n -> 1..n] : \A a, b \in 1..n : a # b => f[a] # f[b]}
      sorted(f) == \A a \in 1..(n - 1) :
                     LET c == compare(s[f[a]], s[f[a + 1]], desc)
                     IN  c < 0 \/ (c = 0 /\ f[a] < f[a + 1])
  IN  {[x \in 1..n |-> s[f[x]]] : f \in {g \in perms : sorted(g)}}

\* getTasks({ status, sortByCreatedAtDesc })
GetTasksOffline(status, desc) ==
  /\ ~online
  /\ \E out \in sortOutcomes(filterByStatus(tasks, status), desc) :
       last' = [Obs("getTasks", "ok", 0) EXCEPT
                  !.ret = out, !.filter = status, !.desc = desc]
  /\ UNCHANGED <<online, now, tasks, pending, lastSync, syncStatus, remote, drains,
                 inflight, ref, bound, view>>

GetTasksOnline(status, desc) ==
  GatewayOnline("getTasks", 0, getTasksRequest(status, desc))

\* The response to online call n of the UI
GatewayRespond(n, netOk) ==
  LET c == inflight[n]
      ok == netOk /\ httpAccepts(remote, c.req)
      resp == httpResponse(remote, c.req)
  IN  /\ inflight' = RemoveAt(inflight, n)
      /\ remote' = IF ok THEN httpRemote(remote, c.req) ELSE remote
      /\ tasks' = IF ok THEN onSuccess(tasks, c.req, resp) ELSE onError(tasks, c.req)
      /\ last' = IF ok
                 THEN [Obs(c.op, "ok", 0) EXCEPT
                         !.ret = onSuccessValue(tasks, c.req, resp),
                         !.arg = c.arg, !.http = "ok"]
                 ELSE LET error == IF netOk THEN HttpError(FALSE, NotFoundStatus)
                                   ELSE HttpError(FALSE, 0)
                      IN  [Obs(c.op, "error", 0) EXCEPT
                             !.arg = c.arg, !.http = "fail", !.error = <<error>>,
                             !.ret = <<handleError(error)>>]
      /\ UNCHANGED <<online, now, pending, lastSync, syncStatus, drains, ref, bound, view>>

\* Online call n of the UI fails with an HttpErrorResponse of any cause: a
\* client-side ErrorEvent, no response, or a failure status of the server
HttpErrors ==
  {HttpError(e, st) : e \in BOOLEAN, st \in {0, NotFoundStatus, ServerFaultStatus}}

GatewayFail(n, error) ==
  LET c == inflight[n]
  IN  /\ inflight' = RemoveAt(inflight, n)
      /\ tasks' = onError(tasks, c.req)
      /\ last' = [Obs(c.op, "error", 0) EXCEPT
                    !.arg = c.arg, !.http = "fail", !.error = <<error>>,
                    !.ret = <<handleError(error)>>]
      /\ UNCHANGED <<online, now, pending, lastSync, syncStatus, remote, drains,
                     ref, bound, view>>

StatusFilters == {<<>>} \cup {<<x>> : x \in CallerStatus}

\* ----------------------------------------------------------- specifications
Environment == Tick \/ GoOffline \/ GoOnline \/ Construct

Orchestrator ==
  \/ ForcSync
  \/ \E d \in 1..Len(drains), netOk \in BOOLEAN : DrainRespond(d, netOk)

OfflineCalls ==
  \/ \E status \in CallerStatus : CreateTaskOffline(status)
  \/ \E id \in CallerIds, status \in CallerStatus : UpdateTaskOffline(id, status)
  \/ \E id \in CallerIds, status \in CallerStatus : PatchTaskOffline(id, status)
  \/ \E id \in CallerIds : DeleteTaskOffline(id)
  \/ \E list \in Reorderings : ReorderTasksOffline(list)
  \/ \E status \in StatusFilters, desc \in BOOLEAN : GetTasksOffline(status, desc)

OnlineCalls ==
  \/ \E status \in CallerStatus : CreateTaskOnline(status)
  \/ \E id \in CallerIds, status \in CallerStatus : UpdateTaskOnline(id, status)
  \/ \E id \in CallerIds, status \in CallerStatus : PatchTaskOnline(id, status)
  \/ \E id \in CallerIds : DeleteTaskOnline(id)
  \/ \E list \in Reorderings : ReorderTasksOnline(list)
  \/ \E status \in StatusFilters, desc \in BOOLEAN : GetTasksOnline(status, desc)
  \/ \E n \in 1..Len(inflight), netOk \in BOOLEAN : GatewayRespond(n, netOk)

\* Spec: the Sync Orchestrator, the Connectivity Monitor and every offline
\* call of the Task Gateway
Next == Environment \/ Orchestrator \/ OfflineCalls

Spec == Init /\ [][Next]_vars

\* GatewaySpec: the offline branches of the Task Gateway over a longer queue
GatewayInit ==
  /\ Start(Bounds(GatewayTasks, GatewayQueue, GatewayTicks, 0, 0))
  /\ ~online

GatewayNext == Tick \/ OfflineCalls

GatewaySpec == GatewayInit /\ [][GatewayNext]_vars

\* OnlineSpec: the Task Gateway, both branches, without the Sync Orchestrator
OnlineInit == Start(Bounds(OnlineTasks, OnlineQueue, OnlineTicks, 0, OnlineInflight))

OnlineNext == Tick \/ GoOffline \/ GoOnline \/ OfflineCalls \/ OnlineCalls

OnlineSpec == OnlineInit /\ [][OnlineNext]_vars

\* QueueSpec and RaceSpec: creations and status changes queued offline, and
\* their replay
QueueNext ==
  \/ Tick
  \/ GoOffline
  \/ GoOnline
  \/ ForcSync
  \/ \E d \in 1..Len(drains), netOk \in BOOLEAN : DrainRespond(d, netOk)
  \/ CreateTaskOffline("todo")
  \/ \E id \in IdsOf(tasks) : PatchTaskOffline(id, "done")

QueueInit == Start(Bounds(QueueTasks, QueueLen, QueueTicks, QueueDrains, 0))

QueueSpec == QueueInit /\ [][QueueNext]_vars

RaceInit == Start(Bounds(RaceTasks, RaceQueue, RaceTicks, RaceDrains, 0))

RaceSpec == RaceInit /\ [][QueueNext]_vars

\* ReplaySpec: create/update/delete performed offline, then connectivity
\* returns and a manual sync replays the queue; no call fails for a reason
\* of the network.  The reference run performs each operation online.
ReplayInit ==
  /\ Start([Bounds(ReplayTasks, ReplayQueue, ReplayTicks, ReplayDrains, 0)
              EXCEPT !.track = TRUE])
  /\ ~online

ReplayNext ==
  \/ Tick
  \/ GoOnline
  \/ ForcSync
  \/ \E d \in 1..Len(drains) : DrainRespond(d, TRUE)
  \/ \E status \in CallerStatus : CreateTaskOffline(status)
  \/ \E id \in IdsOf(tasks), status \in CallerStatus : UpdateTaskOffline(id, status)
  \/ \E id \in IdsOf(tasks) : DeleteTaskOffline(id)

ReplaySpec == ReplayInit /\ [][ReplayNext]_vars

\* FailSpec: the online branches of the Task Gateway, their calls failing
\* for every cause
FailInit ==
  /\ Start(Bounds(FailTasks, 0, 0, 0, FailInflight))
  /\ online

FailNext == OnlineCalls \/ \E n \in 1..Len(inflight), error \in HttpErrors : GatewayFail(n, error)

FailSpec == FailInit /\ [][FailNext]_vars

\* QuerySpec: getTasks served offline from a cache that an earlier online
\* getTasks filled with whatever the remote API held: tasks with and without
\* a priority, in any order.
QueryTask(id) ==
  LET core == [id : {id}, status : CallerStatus, createdAt : {Epoch, Epoch + 1}]
  IN  core \cup {Merge(t, [priority |-> p]) : t \in core, p \in 0..1}

QueryCaches ==
  UNION {{c \in [1..n -> UNION {QueryTask(id) : id \in 1..n}] :
            \A i \in 1..n : c[i].id = i} : n \in 0..QueryLen}

QueryInit ==
  /\ bound = Bounds(QueryLen, 0, 0, 0, 0)
  /\ online = FALSE
  /\ now = Epoch + 1
  /\ tasks \in QueryCaches
  /\ remote = tasks
  /\ pending = <<>>
  /\ lastSync = Null
  /\ syncStatus = initializeOfflineSupport(FALSE, <<>>, Null)
  /\ drains = <<>>
  /\ inflight = <<>>
  /\ last = [Obs("construct", "ok", 0) EXCEPT !.emit = getOnlineStatus(online)]
  /\ ref = [tasks |-> <<>>, remote |-> <<>>]
  /\ view = NoView

QueryNext == \E status \in StatusFilters, desc \in BOOLEAN : GetTasksOffline(status, desc)

QuerySpec == QueryInit /\ [][QueryNext]_vars

\* CacheSpec: the methods of the Local Cache called one by one on a cache
\* left by an earlier session: tasks with and without a priority, two of them
\* possibly with the same id (placeholders of the same millisecond), with or
\* without a persisted queue and lastSyncTime.
CacheTask(id) ==
  LET core == [id : {id}, status : CallerStatus, createdAt : {Epoch}]
  IN  core \cup {Merge(t, [priority |-> p]) : t \in core, p \in 0..1}

CacheLists ==
  UNION {[1..n -> UNION {CacheTask(id) : id \in 1..CacheLen}] : n \in 0..CacheLen}

\* The tasks a caller may pass: with the id of a cached task or with an id
\* the cache does not hold
CacheArgs == UNION {CacheTask(id) : id \in 1..(CacheLen + 1)}

CacheQueue ==
  addPendingAction(<<>>, [type |-> "delete", taskId |-> StaleId], Epoch)

CacheInit ==
  /\ bound = Bounds(CacheLen, 1, 0, 0, 0)
  /\ online = FALSE
  /\ now = Epoch + 1
  /\ tasks \in CacheLists
  /\ \/ pending = <<>> /\ lastSync = Null
     \/ pending = CacheQueue /\ lastSync = setLastSyncTime(Epoch)
  /\ syncStatus = initializeOfflineSupport(FALSE, pending, lastSync)
  /\ remote = <<>>
  /\ drains = <<>>
  /\ inflight = <<>>
  /\ last = [Obs("construct", "ok", 0) EXCEPT !.emit = getOnlineStatus(online)]
  /\ ref = [tasks |-> <<>>, remote |-> <<>>]
  /\ view = NoView

\* A method of the Local Cache that writes the task list
CacheCall(op, arg, ret, newTasks) ==
  /\ tasks' = newTasks
  /\ last' = [Obs(op, "ok", 0) EXCEPT !.arg = arg, !.ret = ret]
  /\ UNCHANGED <<online, now, pending, lastSync, syncStatus, remote, drains,
                 inflight, ref, bound, view>>

LocalAddTask(task) ==
  /\ Len(tasks) < bound.tasks
  /\ CacheCall("cache.addTask", task.id, <<task>>, addTask(tasks, task))

LocalUpdateTask(task) ==
  CacheCall("cache.updateTask", task.id, <<task>>, updateTask(tasks, task))

LocalDeleteTask(id) ==
  CacheCall("cache.deleteTask", id, <<>>, deleteTask(tasks, id))

LocalReorderTasks(list) ==
  CacheCall("cache.reorderTasks", 0, list, reorderTasks(tasks, list))

CacheNext ==
  \/ \E task \in CacheArgs : LocalAddTask(task)
  \/ \E task \in CacheArgs : LocalUpdateTask(task)
  \/ \E id \in 1..(CacheLen + 1) : LocalDeleteTask(id)
  \/ \E list \in Reorderings : LocalReorderTasks(list)

CacheSpec == CacheInit /\ [][CacheNext]_vars

\* ListSpec: the task list after an online loadTasks showed the tasks of the
\* remote API; the user changes the status of displayed tasks, also while
\* earlier changes are outstanding, and connectivity comes and goes.
ListTask(id) == [id : {id}, status : TaskStatus, createdAt : {id}]

ListLoaded ==
  {c \in [1..ListTasks -> UNION {ListTask(id) : id \in 1..ListTasks}] :
     \A i \in 1..ListTasks : c[i].id = i}

ListInit ==
  /\ bound = Bounds(ListTasks, ListQueue, 0, 0, ListInflight)
  /\ online = TRUE
  /\ now = Epoch
  /\ remote \in ListLoaded
  /\ tasks = remote
  /\ view = [NoView EXCEPT !.tasks = remote]
  /\ pending = <<>>
  /\ lastSync = Null
  /\ syncStatus = initializeOfflineSupport(TRUE, <<>>, Null)
  /\ drains = <<>>
  /\ inflight = <<>>
  /\ last = [Obs("construct", "ok", 0) EXCEPT !.emit = getOnlineStatus(TRUE)]
  /\ ref = [tasks |-> <<>>, remote |-> <<>>]

\* onStatusChanged(updated): this.tasks.map(t => (t.id === updated.id ? updated : t))
onStatusChanged(ts, updated) ==
  [i \in 1..Len(ts) |-> IF ts[i].id = updated.id THEN updated ELSE ts[i]]

\* task.status = status, for the task object of a changeStatus call: the
\* object is displayed (live) until onStatusChanged puts another in its place
setStatus(ts, id, live, status) ==
  IF live /\ findIndexById(ts, id) # 0
  THEN [ts EXCEPT ![findIndexById(ts, id)].status = status]
  ELSE ts

\* changeStatus: the error callback of the patchTask subscription
changeStatusError(v, id, live, originalStatus) ==
  [v EXCEPT !.updatingStatusIds = @ \ {id},
            !.tasks = setStatus(@, id, live, originalStatus)]

\* changeStatus: the next callback; statusChange.emit(updated) reaches
\* onStatusChanged of the parent
changeStatusNext(v, id, updated) ==
  [v EXCEPT !.updatingStatusIds = @ \ {id},
            !.tasks = onStatusChanged(@, updated),
            !.succeeded = @ \cup {id}]

\* The task objects of the outstanding calls for id are displayed no longer
Detached(calls, id) ==
  [n \in 1..Len(calls) |->
     IF calls[n].arg = id THEN [calls[n] EXCEPT !.live = FALSE] ELSE calls[n]]

\* changeStatus(task, status) on the displayed task at position i
ChangeStatus(i, status) ==
  LET task == view.tasks[i]
      originalStatus == task.status
      optimistic ==
        [view EXCEPT !.tasks = setStatus(@, task.id, TRUE, status),
                     !.updatingStatusIds = @ \cup {task.id},
                     !.first = IF task.id \in DOMAIN @ THEN @
                               ELSE Merge(@, [x \in {task.id} |-> originalStatus])]
      r == patchTaskOffline(tasks, pending, task.id, [status |-> status], now)
  IN  /\ Truthy(task, "id")
      /\ task.status # status
      /\ IF online
         THEN /\ Len(inflight) < bound.inflight
              /\ inflight' = Append(inflight,
                   [op |-> "changeStatus", arg |-> task.id,
                    req |-> patchTaskRequest(task.id, [status |-> status]),
                    originalStatus |-> originalStatus, live |-> TRUE])
              /\ view' = optimistic
              /\ last' = [Obs("changeStatus", "sent", 1) EXCEPT !.arg = task.id]
              /\ UNCHANGED <<tasks, pending>>
         ELSE /\ Len(r.pending) <= bound.queue
              /\ tasks' = r.tasks
              /\ pending' = r.pending
              /\ inflight' = IF r.ok THEN Detached(inflight, task.id) ELSE inflight
              /\ view' = IF r.ok THEN changeStatusNext(optimistic, task.id, r.ret[1])
                         ELSE changeStatusError(optimistic, task.id, TRUE, originalStatus)
              /\ last' = [Obs("changeStatus", IF r.ok THEN "ok" ELSE "error", 0)
                            EXCEPT !.arg = task.id, !.ret = r.ret]
      /\ UNCHANGED <<online, now, lastSync, syncStatus, remote, drains, ref, bound>>

\* The response to outstanding status change n
ChangeStatusRespond(n, netOk) ==
  LET c == inflight[n]
      ok == netOk /\ httpAccepts(remote, c.req)
      resp == httpResponse(remote, c.req)
      error == IF netOk THEN HttpError(FALSE, NotFoundStatus) ELSE HttpError(FALSE, 0)
  IN  /\ c.op = "changeStatus"
      /\ remote' = IF ok THEN httpRemote(remote, c.req) ELSE remote
      /\ tasks' = IF ok THEN onSuccess(tasks, c.req, resp) ELSE onError(tasks, c.req)
      /\ inflight' = IF ok THEN Detached(RemoveAt(inflight, n), c.arg)
                     ELSE RemoveAt(inflight, n)
      /\ view' = IF ok THEN changeStatusNext(view, c.arg, resp[1])
                 ELSE changeStatusError(view, c.arg, c.live, c.originalStatus)
      /\ last' = IF ok
                 THEN [Obs("changeStatus", "ok", 0) EXCEPT
                         !.arg = c.arg, !.http = "ok", !.ret = resp]
                 ELSE [Obs("changeStatus", "error", 0) EXCEPT
                         !.arg = c.arg, !.http = "fail", !.error = <<error>>,
                         !.ret = <<handleError(error)>>]
      /\ UNCHANGED <<online, now, pending, lastSync, syncStatus, drains, ref, bound>>

ListNext ==
  \/ GoOffline
  \/ GoOnline
  \/ \E i \in 1..Len(view.tasks), status \in TaskStatus : ChangeStatus(i, status)
  \/ \E n \in 1..Len(inflight), netOk \in BOOLEAN : ChangeStatusRespond(n, netOk)

ListSpec == ListInit /\ [][ListNext]_vars

\* ------------------------------------------------------------------ claims
\* C1 (QueueSpec): when a drain with which no enqueue and no other drain
\* interleaved ends because the replay of the action at position k of its
\* queue snapshot failed, the queue holds exactly the snapshot's actions from
\* position k on, in their order.
C1_FailedReplayKeepsSuffix ==
  (last.ended /\ last.clean /\ last.k > 0)
    => pending = SubSeq(last.snap, last.k, Len(last.snap))

\* C2 (RaceSpec): replay is sequential and in queue order: at most one replay
\* call is outstanding at any time, and the action it replays is the oldest
\* action of the queue (every action queued before it has been replayed
\* and removed).
C2_ReplaySequentialFifo ==
  /\ Len(drains) <= 1
  /\ \A d \in 1..Len(drains) :
       pending # <<>> /\ pending[1] = drains[d].snap[drains[d].i]

\* C3 (Spec): after every step that changes the pending-action queue (an
\* enqueue by an offline Task Gateway mutation, a dequeue by the drain),
\* SyncStatus.pendingSyncCount equals the length of the queue.
C3_CountFollowsQueue ==
  [][pending' # pending => syncStatus'.pendingSyncCount = Len(pending')]_vars

\* C4 (Spec): whenever connectivity goes from offline to online while the
\* pending-action queue is non-empty, that transition starts a drain.
C4_ReconnectStartsDrain ==
  [][(~online /\ online' /\ pending # <<>>) => last'.sync]_vars

\* C5 (ReplaySpec): when a drain that replayed every action of the queue
\* filled offline ends, the Local Cache task list equals the task list of
\* the reference run, in which the same operations were performed online.
C5_ReplayEqualsOnline ==
  (last.ended /\ last.k = 0 /\ pending = <<>>) => tasks = ref.tasks

\* C6 (Spec): forcSync invoked while offline fails at once, issues no remote
\* call, and leaves the queue, the cached tasks, lastSyncTime and
\* pendingSyncCount (the whole SyncStatus) unchanged.
C6_ForcSyncOfflineFails ==
  [][(last'.op = "forcSync" /\ ~online)
       => /\ last'.res = "error"
          /\ last'.calls = 0
          /\ ~last'.sync
          /\ UNCHANGED <<pending, tasks, lastSync, syncStatus, remote, drains>>]_vars

C6_Witness ==
  /\ last.op = "forcSync"
  /\ last.res = "error"
  /\ ~online
  /\ pending # <<>>

\* C7 (Spec): patchTask invoked offline with an id that no cached task has
\* fails with "Task not found", enqueues nothing, issues no remote call and
\* leaves the cached task list unchanged.
C7_PatchAbsentNotFound ==
  [][(last'.op = "patchTask" /\ ~online /\ last'.arg \notin IdsOf(tasks))
       => /\ last'.res = "error"
          /\ last'.ret = <<"Task not found">>
          /\ last'.calls = 0
          /\ UNCHANGED <<pending, tasks, remote>>]_vars

C7_Witness ==
  /\ last.op = "patchTask"
  /\ last.res = "error"
  /\ ~online
  /\ tasks # <<>>
  /\ last.arg \notin IdsOf(tasks)

\* C8 (Spec): while the pending-action queue is empty, going offline, going
\* online, and a manual sync each issue no remote call, start no drain and
\* leave lastSyncTime (stored and published) unchanged.
C8_EmptyQueueNoSync ==
  [][(pending = <<>> /\ last'.op \in {"offline", "online", "forcSync"})
       => /\ last'.calls = 0
          /\ ~last'.sync
          /\ lastSync' = lastSync
          /\ syncStatus'.lastSyncTime = syncStatus.lastSyncTime
          /\ UNCHANGED <<pending, remote, drains>>]_vars

C8_Witness ==
  /\ last.op = "online"
  /\ online
  /\ pending = <<>>
  /\ lastSync # Null

\* C9 (GatewaySpec): every offline mutation of the Task Gateway (patchTask:
\* on a cached task) issues no remote call, succeeds with the locally made
\* result, applies the mutation to the Local Cache, and appends one action
\* of the matching type, describing the mutation, after the actions already
\* queued, which it leaves as they were.
C9_Type(op) ==
  CASE op = "createTask"   -> "create"
    [] op = "deleteTask"   -> "delete"
    [] op = "reorderTasks" -> "reorder"
    [] OTHER               -> "update"

C9_Mutations == {"createTask", "updateTask", "patchTask", "deleteTask", "reorderTasks"}

C9_Effect(op, id, ret, before, after, action, t) ==
  LET p == findIndexById(before, id)
      Other(x) == x.id # id
  IN  CASE op = "createTask" ->
             /\ after = Append(before, ret[1])
             /\ ret[1].id = t
             /\ ret[1].createdAt = t
             /\ action.task = ret[1]
        [] op \in {"updateTask", "patchTask"} ->
             /\ ret[1].id = id
             /\ after = IF p = 0 THEN before ELSE [before EXCEPT ![p] = ret[1]]
             /\ action.task = ret[1]
        [] op = "deleteTask" ->
             /\ after = SelectSeq(before, Other)
             /\ ret = <<>>
             /\ action.taskId = id
        [] OTHER ->
             /\ after = [i \in 1..Len(ret) |-> Merge(ret[i], [priority |-> i - 1])]
             /\ action.data.tasks = ret

C9_OfflineMutation ==
  [][(~online /\ last'.op \in C9_Mutations
        /\ (last'.op = "patchTask" => last'.arg \in IdsOf(tasks)))
       => /\ last'.calls = 0
          /\ last'.res = "ok"
          /\ UNCHANGED <<remote, inflight>>
          /\ Len(pending') = Len(pending) + 1
          /\ SubSeq(pending', 1, Len(pending)) = pending
          /\ pending'[Len(pending')].type = C9_Type(last'.op)
          /\ C9_Effect(last'.op, last'.arg, last'.ret, tasks, tasks',
                       pending'[Len(pending')], now)]_vars

C9_Witness ==
  /\ ~online
  /\ last.op = "patchTask"
  /\ last.res = "ok"
  /\ Len(pending) = 2
  /\ pending[1].type = "create"
  /\ pending[2].type = "update"

\* C10 (OnlineSpec): when an online call of the Task Gateway fails, the
\* caller gets the error, the Local Cache and the queue are unchanged, and
\* no call is issued again: the failed call just leaves the outstanding ones.
C10_OnlineFailure ==
  [][last'.http = "fail"
       => /\ last'.res = "error"
          /\ last'.calls = 0
          /\ UNCHANGED <<tasks, pending, drains>>
          /\ \E n \in 1..Len(inflight) : inflight' = RemoveAt(inflight, n)]_vars

C10_Witness ==
  /\ last.http = "fail"
  /\ last.res = "error"
  /\ last.op = "createTask"
  /\ online

\* C11 (GatewaySpec): a reorderTasks(list) leaves in the Local Cache the
\* tasks of the list, in the list's order, the task at index i with priority
\* i (0-based); a getTasks without status filter served from the cache in
\* the very next step returns the tasks in that order.
C11_Stored(list, cache) ==
  /\ Len(cache) = Len(list)
  /\ \A i \in 1..Len(list) :
       /\ cache[i].priority = i - 1
       /\ Without(cache[i], "priority") = Without(list[i], "priority")

C11_ReorderThenGet ==
  [][/\ (last'.op = "reorderTasks" => C11_Stored(last'.ret, tasks'))
     /\ (last.op = "reorderTasks" /\ last'.op = "getTasks" /\ last'.filter = <<>>)
          => (last'.ret = tasks /\ C11_Stored(last.ret, last'.ret))]_vars

C11_Witness ==
  /\ last.op = "getTasks"
  /\ last.filter = <<>>
  /\ pending # <<>>
  /\ pending[Len(pending)].type = "reorder"
  /\ Len(last.ret) = 2
  /\ C11_Stored(pending[Len(pending)].data.tasks, last.ret)
  /\ last.ret[1].createdAt > last.ret[2].createdAt

C13_LastSyncOnlyOnFullDrain ==
  [][(lastSync' # lastSync \/ syncStatus'.lastSyncTime # syncStatus.lastSyncTime)
       => (last'.ended /\ last'.k = 0)]_vars

\* C14 (RaceSpec): while a drain is in progress (suspended at an await), a
\* reconnect or a forcSync starts no drain, and no step leaves more than one
\* drain in progress.
C14_DrainsExclusive ==
  [][drains # <<>>
       => /\ ~(last'.op \in {"forcSync", "online"} /\ last'.sync)
          /\ Len(drains') <= 1]_vars

\* C15 (ReplaySpec): in the step in which the replayed create of a task
\* created offline succeeds, the Local Cache comes to hold exactly one record
\* with the id the remote API assigned and no record with the placeholder id
\* the offline create gave the task.
C15_OneRecordAfterReplay ==
  [][(/\ Len(drains) = 1
      /\ drains[1].req.m = "POST"
      /\ last'.op = "replay"
      /\ last'.http = "ok")
       => LET placeholder == drains[1].snap[drains[1].i].task.id
              assigned == remote'[Len(remote')].id
          IN  /\ placeholder \notin IdsOf(tasks')
              /\ Cardinality({i \in 1..Len(tasks') : tasks'[i].id = assigned}) = 1]_vars

\* C16 (GatewaySpec): the actions in the pending-action queue have pairwise
\* distinct ids.
C16_DistinctActionIds ==
  \A i, j \in 1..Len(pending) : i # j => pending[i].id # pending[j].id

\* C17 (OnlineSpec): once reorderTasks has completed online, the remote API
\* holds every task of the reordered cache with the priority of its new
\* position.
C17_OnlineReorderSynced ==
  (last.op = "reorderTasks" /\ last.res = "ok" /\ online)
    => \A i \in 1..Len(tasks) :
         \E n \in 1..Len(remote) :
           /\ remote[n].id = tasks[i].id
           /\ Has(remote[n], "priority")
           /\ remote[n].priority = i - 1

\* C18 (Spec): the call a drain awaits while it replays a reorder action is
\* the priority patch of the task the replay has come to, in list order;
\* and in the step in which the patch of the list's last task succeeds, the
\* remote API holds every task of the list with its index in the list as
\* priority.
C18_Replaying(d) == drains[d].snap[drains[d].i]

C18_ReorderReplay ==
  [][/\ \A d \in 1..Len(drains) :
          C18_Replaying(d).type = "reorder"
            => /\ drains[d].req.m = "PATCH"
               /\ drains[d].req.id = C18_Replaying(d).data.tasks[drains[d].j].id
     /\ (/\ Len(drains) = 1
         /\ C18_Replaying(1).type = "reorder"
         /\ drains[1].j = Len(C18_Replaying(1).data.tasks)
         /\ last'.op = "replay"
         /\ last'.http = "ok")
          => LET list == C18_Replaying(1).data.tasks
             IN  \A i \in 1..Len(list) :
                   \E n \in 1..Len(remote') :
                     /\ remote'[n].id = list[i].id
                     /\ Has(remote'[n], "priority")
                     /\ remote'[n].priority = i - 1]_vars

\* C19 (QueueSpec): a drain that ends because the replay of an action failed
\* completes without an error (so does the forcSync that started it), and
\* the action whose replay failed is still in the queue.
C19_FailureSwallowedActionKept ==
  (last.ended /\ last.k > 0)
    => /\ last.res = "ok"
       /\ \E n \in 1..Len(pending) : pending[n] = last.snap[last.k]

\* C20 (QuerySpec): getTasks served offline issues no remote call, leaves
\* the Local Cache and the queue as they are, and returns the cached tasks
\* whose status matches the filter (every cached task without a filter), each
\* once, in ascending priority when every returned task carries a priority.
C20_Matches(t, filter) == filter = <<>> \/ t.status = filter[1]

C20_SameTasks(out, cache, filter) ==
  LET want == {i \in 1..Len(cache) : C20_Matches(cache[i], filter)}
  IN  \E f \in [1..Len(out) -> want] :
        /\ \A a, b \in 1..Len(out) : a # b => f[a] # f[b]
        /\ \A w \in want : \E a \in 1..Len(out) : f[a] = w
        /\ \A a \in 1..Len(out) : out[a] = cache[f[a]]

C20_Ascending(out) ==
  (\A a \in 1..Len(out) : Has(out[a], "priority"))
    => \A a, b \in 1..Len(out) : a < b => out[a].priority <= out[b].priority

C20_OfflineGetTasks ==
  [][(last'.op = "getTasks" /\ last'.http = "none" /\ ~online)
       => /\ last'.calls = 0
          /\ last'.res = "ok"
          /\ UNCHANGED <<tasks, pending, remote, inflight, drains>>
          /\ C20_SameTasks(last'.ret, tasks, last'.filter)
          /\ C20_Ascending(last'.ret)]_vars

C20_Witness ==
  /\ last.op = "getTasks"
  /\ ~online
  /\ last.filter = <<"todo">>
  /\ Len(tasks) = 2
  /\ Len(last.ret) = 2
  /\ C20_Ascending(last.ret)
  /\ Has(last.ret[1], "priority")
  /\ Has(last.ret[2], "priority")
  /\ last.ret[1].priority < last.ret[2].priority
  /\ last.ret[1].id > last.ret[2].id

\* C21 (FailSpec): a failed remote call of the Task Gateway gives its caller
\* one string, by the cause: an ErrorEvent gives a "Network error" message;
\* otherwise status 0 gives the "Cannot connect to server" message;
\* otherwise a "Server error <status>" message with the status in it.
C21_Message(error) ==
  CASE error.isErrorEvent -> "Network error: " \o error.eventMessage
    [] ~error.isErrorEvent /\ error.status = 0 ->
         "Cannot connect to server. Is the Mock API running on http://localhost:3001?"
    [] ~error.isErrorEvent /\ error.status # 0 ->
         "Server error " \o ToString(error.status) \o ": " \o error.message

C21_ErrorClassified ==
  [][last'.http = "fail"
       => /\ last'.res = "error"
          /\ Len(last'.error) = 1
          /\ last'.ret = <<C21_Message(last'.error[1])>>]_vars

C21_Witness ==
  /\ last.http = "fail"
  /\ last.error # <<>>
  /\ last.error[1].isErrorEvent
  /\ last.error[1].status = 0
  /\ last.ret = <<"Network error: Failed to fetch">>

C23_Others(s, id) ==
  LET Other(t) == t.id # id IN SelectSeq(s, Other)

C23_UpdateDeleteFrame ==
  [][/\ (last'.op = "cache.updateTask") =>
          IF last'.arg \notin IdsOf(tasks) THEN tasks' = tasks
          ELSE /\ Len(tasks') = Len(tasks)
               /\ \E p \in 1..Len(tasks) :
                    /\ tasks[p].id = last'.arg
                    /\ tasks'[p] = last'.ret[1]
                    /\ \A j \in 1..Len(tasks) : j # p => tasks'[j] = tasks[j]
     /\ (last'.op = "cache.deleteTask") =>
          IF last'.arg \notin IdsOf(tasks) THEN tasks' = tasks
          ELSE /\ tasks' = C23_Others(tasks, last'.arg)
               /\ last'.arg \notin IdsOf(tasks')
               /\ Len(tasks') < Len(tasks)
     /\ (last'.op \in {"cache.updateTask", "cache.deleteTask"}) =>
          UNCHANGED <<pending, lastSync>>]_vars

C23_Witness ==
  /\ last.op = "cache.updateTask"
  /\ Len(tasks) = 2
  /\ tasks[1].id # last.arg
  /\ tasks[2] = last.ret[1]
  /\ pending # <<>>
  /\ lastSync # Null

\* C24 (CacheSpec): addTask(task) of the Local Cache appends the task to the
\* cached list; the appended task has the length the list had as priority
\* when the task carried no priority, and is the task as given when it
\* carried one, priority 0 included.
C24_AddTaskPriority ==
  [][(last'.op = "cache.addTask") =>
       LET task == last'.ret[1]
       IN  tasks' = Append(tasks, IF Has(task, "priority") THEN task
                                  ELSE Merge(task, [priority |-> Len(tasks)]))]_vars

\* C25 (ReplaySpec): in the step in which the replayed create of a task
\* created offline succeeds, the record the remote API comes to hold has the
\* createdAt of the placeholder task that the offline createTask cached and
\* queued.
C25_ReplayKeepsCreatedAt ==
  [][(/\ Len(drains) = 1
      /\ drains[1].req.m = "POST"
      /\ last'.op = "replay"
      /\ last'.http = "ok")
       => remote'[Len(remote')].createdAt =
            drains[1].snap[drains[1].i].task.createdAt]_vars

\* C26 (Spec): isOnline$ delivers to the subscriber of the Sync Orchestrator,
\* when the service is constructed, the current reachability once; and every
\* value it delivers afterwards differs from the value it delivered before
\* (which the subscriber stored as isOnline of the sync status).
C26_EmitsOnEdgesOnly ==
  [][/\ (last'.op = "construct") => last'.emit = <<online'>>
     /\ (last'.op # "construct" /\ last'.emit # <<>>) =>
          /\ Len(last'.emit) = 1
          /\ last'.emit[1] # syncStatus.isOnline
          /\ last'.emit[1] = online']_vars

\* C27 (QueueSpec): no step of a drain (its start, or the replay that goes on
\* when a response arrives) puts into the pending-action queue an action
\* that was not there before the step, and none makes the cached task list
\* longer; connectivity may drop between two steps of the drain.
C27_DrainNeverEnlarges ==
  [][last'.sync
       => /\ \A n \in 1..Len(pending') :
               \E m \in 1..Len(pending) : pending[m] = pending'[n]
          /\ Len(tasks') <= Len(tasks)]_vars

\* C28 (QueueSpec): in every step of a drain that goes on when a response
\* arrives, the drain keeps its queue snapshot, and each action of the queue
\* that is not in the snapshot (it was enqueued while the drain was in
\* progress) is in the queue after the step, behind every snapshot action
\* the queue still holds.
C28_InSnapshot(a, snap) == \E m \in 1..Len(snap) : snap[m] = a

C28_EnqueuedDuringDrainKept ==
  [][(Len(drains) = 1 /\ last'.op = "replay")
       => LET snap == drains[1].snap
          IN  /\ last'.snap = snap
              /\ \A n \in 1..Len(pending) :
                   ~C28_InSnapshot(pending[n], snap)
                     => \E m \in 1..Len(pending') :
                          /\ pending'[m] = pending[n]
                          /\ \A k \in 1..Len(pending') :
                               C28_InSnapshot(pending'[k], snap) => k < m]_vars

\* C29 (Spec): the construction of OfflineService sends no request, starts no
\* drain and writes nothing to the Local Cache or the remote API, whatever
\* the connectivity and the persisted queue; it leaves in the sync status
\* the connectivity, the length of the persisted queue and the persisted
\* lastSyncTime.  A drain is started only by forcSync or by the step in which
\* connectivity changes from offline to online.
C29_ConstructStartsNothing ==
  [][/\ (last'.op = "construct")
          => /\ ~last'.sync
             /\ last'.calls = 0
             /\ drains' = <<>>
             /\ inflight' = <<>>
             /\ UNCHANGED <<tasks, pending, lastSync, remote>>
             /\ syncStatus' = [isOnline |-> online,
                               pendingSyncCount |-> Len(pending),
                               lastSyncTime |-> lastSync]
     /\ (last'.sync /\ last'.op # "replay")
          => \/ last'.op = "forcSync"
             \/ last'.op = "online" /\ ~online /\ online']_vars

C29_Witness ==
  /\ last.op = "construct"
  /\ online
  /\ pending # <<>>
  /\ lastSync # Null
  /\ drains = <<>>
  /\ syncStatus.pendingSyncCount = Len(pending)
  /\ syncStatus.lastSyncTime = lastSync

\* C30 (GatewaySpec): a reorderTasks(list) leaves in the Local Cache tasks
\* with the same ids as before the call, also when the list holds only some
\* of the cached tasks.
C30_ReorderKeepsTasks ==
  [][(last'.op = "reorderTasks") => IdsOf(tasks') = IdsOf(tasks)]_vars

\* C31 (OnlineSpec): the placeholder task of every create action in the
\* pending-action queue is in the Local Cache task list, unless the queue
\* also holds the delete of that task.
C31_Deleted(id) ==
  \E m \in 1..Len(pending) : pending[m].type = "delete" /\ pending[m].taskId = id

C31_PendingCreateCached ==
  \A n \in 1..Len(pending) :
    (pending[n].type = "create" /\ ~C31_Deleted(pending[n].task.id))
      => pending[n].task.id \in IdsOf(tasks)

\* C32 (GatewaySpec): an offline updateTask or deleteTask for an id that no
\* cached task has leaves the cached task list and the pending-action queue
\* as they were.
C32_AbsentTargetNotQueued ==
  [][(/\ ~online
      /\ last'.op \in {"updateTask", "deleteTask"}
      /\ last'.arg \notin IdsOf(tasks))
       => UNCHANGED <<tasks, pending>>]_vars

\* C33 (ListSpec): when no status change of a displayed task is outstanding
\* and every status change issued for it has failed, the task displays the
\* status it displayed before the first of them.
C33_Settled(id) ==
  /\ id \in DOMAIN view.first
  /\ id \notin view.succeeded
  /\ \A n \in 1..Len(inflight) : inflight[n].arg # id

C33_RollbackRestores ==
  \A i \in 1..Len(view.tasks) :
    C33_Settled(view.tasks[i].id)
      => view.tasks[i].status = view.first[view.tasks[i].id]

====
